---- MODULE Spec2Model ----
(***************************************************************************)
(* Theme preference controller of the AstroBot dashboard.                  *)
(*                                                                         *)
(* One page load is modelled: static/js/alpine-init.js (early theme        *)
(* initialisation, the Alpine 'theme' store, the prefers-color-scheme      *)
(* listener) together with static/js/theme-toggle.js (window.setTheme,     *)
(* applyTheme, its own prefers-color-scheme listener).  Both files share   *)
(* the document root's class list, the body's data-theme attribute and     *)
(* localStorage['theme'].                                                  *)
(*                                                                         *)
(* Spec        the page with every storage mode, stored value and flag;    *)
(*             sync requests are sent but their answers are not followed.  *)
(* SpecSync    the same page with the sync requests followed to the        *)
(*             server and back (themes and storage restricted).            *)
(* SpecWidgets the same page with the theme-changed subscribers of         *)
(*             alpine-init.js, theme-transitions.js and main.js.           *)
(* SpecSyncOk  SpecSync on a network and a server that never fail.         *)
(* SpecTM      the ThemeManager component (a separate page variant).       *)
(* SpecSocket  AstroBotUtils.socket.setupSocketEventHandlers and a socket. *)
(* SpecCollapse the custom collapse directive of alpine-collapse.js.       *)
(* SpecApp     the notifications of Alpine.store('app').                   *)
(***************************************************************************)
EXTENDS Naturals, Sequences, FiniteSets, TLC

VARIABLES
    storage,        \* how localStorage behaves on this page: StorageModes
    premium,        \* body data-premium === 'true'
    authenticated,  \* body data-user-authenticated === 'true'
    mediaAvail,     \* window.matchMedia exists
    csrfToken,      \* content of meta[name="csrf-token"], "" when the tag is absent
    netMode,        \* "elided": answers to sync requests are not followed; "queued": they are
    throwing,       \* the theme-changed subscribers that throw when invoked
    transitions,    \* theme-transitions.js is included in the page
    prefersDark,    \* matchMedia('(prefers-color-scheme: dark)').matches
    rootAvail,      \* document.documentElement exists
    bodyAvail,      \* document.body exists
    loaded,         \* the top level of alpine-init.js has run
    storeReady,     \* 'alpine:init' has fired, Alpine.store('theme') exists
    domReady,       \* DOMContentLoaded has fired (watchers, window.setTheme)
    initialTheme,   \* window.__initialTheme
    stored,         \* localStorage['theme'], NULL when absent
    currentTheme,   \* alpine-init.js module variable currentTheme
    current,        \* Alpine.store('theme').current
    isDark,         \* Alpine.store('theme').isDark
    menuOpen,       \* Alpine.store('theme').menuOpen
    rootClasses,    \* document.documentElement.classList
    bodyTheme,      \* body data-theme attribute, NULL when not set
    bodyClasses,    \* theme classes of document.body.classList
    charts,         \* charts made by createResponsiveChart (listeners on document)
    inflight,       \* sync requests sent and not yet answered, oldest first
    serverTheme,    \* the theme preference the server holds, NULL when none
    emitted,        \* theme-changed events dispatched by the last operation
    ran,            \* subscriber invocations made by the last operation
    synced,         \* POST /update_theme_preference requests sent by the last operation
    logged,         \* console.warn / console.error calls of the last operation
    thrown,         \* the last operation let an exception out to its caller
    tm,             \* the fields of window.ThemeManager
    stars,          \* number of #stars-background elements in the body
    sock,           \* the socket: its listeners, in registration order
    app,            \* Alpine.store('app'): notifications, their timers, the clock
    coll,           \* one element with the collapse directive
    source,         \* why the theme holds its value (history, not a field of the code)
    lastOp,         \* the last operation and its argument (history)
    repeated        \* the last operation repeats the one before it (history)

\* fixed during a page load
Env == << storage, premium, authenticated, mediaAvail, csrfToken, netMode, throwing,
         transitions >>

\* the document's life cycle
Life == << rootAvail, bodyAvail, loaded, storeReady, domReady >>

vars == << Env, Life, prefersDark, initialTheme, stored, currentTheme, current,
           isDark, menuOpen, rootClasses, bodyTheme, bodyClasses, charts,
           inflight, serverTheme, emitted, ran, synced, logged, thrown, tm,
           stars, sock, app, coll, source, lastOp, repeated >>

----------------------------------------------------------------------------
(* Constants of the code *)

NULL == "null"

THEME_STORAGE_KEY == "theme"

DEFAULT_THEME == "light"

PREMIUM_THEMES == {"space", "neon", "contrast"}

\* The theme ids the registry knows (light, dark and the premium themes).
REGISTRY == {"light", "dark"} \cup PREMIUM_THEMES

\* Theme names that are not in the registry (a renamed or removed theme).
UnknownThemes == {"retro"}

\* Every string a caller or the storage can hand to the controller.
ThemeArgs == REGISTRY \cup UnknownThemes

\* ok: reads and writes work; readonly: setItem throws (quota), getItem works;
\* denied: getItem and setItem throw; undefined: typeof localStorage is 'undefined'.
StorageModes == {"ok", "readonly", "denied", "undefined"}

Sources == {"DEFAULT", "EXPLICIT_USER", "SYSTEM_PREFERENCE"}

\* the most sync requests followed at once in SpecSync
MaxInflight == 2

\* the most calls of setupSocketEventHandlers in SpecSocket
MaxSetups == 2

\* the most #stars-background elements followed in SpecWidgets
MaxStars == 2

\* the most transitionend listeners followed on one element in SpecCollapse
MaxListeners == 2

\* the latest clock reading (milliseconds) in SpecApp
MaxClock == 2

\* the most notifications, and the most pending timers, in SpecApp
MaxNotifications == 3

\* the most charts created in SpecWidgets
MaxCharts == 1

----------------------------------------------------------------------------
(* The part of the page the theme code writes, as one record, so that the  *)
(* statements of a handler compose in the order the code runs them.  The   *)
(* per-operation outputs start empty.                                      *)

World ==
    [ rootClasses  |-> rootClasses,
      currentTheme |-> currentTheme,
      current      |-> current,
      isDark       |-> isDark,
      menuOpen     |-> menuOpen,
      stored       |-> stored,
      bodyTheme    |-> bodyTheme,
      bodyClasses  |-> bodyClasses,
      inflight     |-> inflight,
      emitted      |-> << >>,
      ran          |-> << >>,
      synced       |-> << >>,
      logged       |-> << >>,
      thrown       |-> FALSE,
      tm           |-> tm,
      stars        |-> stars,
      sock         |-> sock,
      app          |-> app,
      coll         |-> coll ]

Commit(w) ==
    /\ rootClasses'  = w.rootClasses
    /\ currentTheme' = w.currentTheme
    /\ current'      = w.current
    /\ isDark'       = w.isDark
    /\ menuOpen'     = w.menuOpen
    /\ stored'       = w.stored
    /\ bodyTheme'    = w.bodyTheme
    /\ bodyClasses'  = w.bodyClasses
    /\ inflight'     = w.inflight
    /\ emitted'      = w.emitted
    /\ ran'          = w.ran
    /\ synced'       = w.synced
    /\ logged'       = w.logged
    /\ thrown'       = w.thrown
    /\ tm'           = w.tm
    /\ stars'        = w.stars
    /\ sock'         = w.sock
    /\ app'          = w.app
    /\ coll'         = w.coll

\* console.warn / console.error
Log(msg, w) == [w EXCEPT !.logged = Append(@, msg)]

----------------------------------------------------------------------------
(* The platform: event dispatch and fetch *)

\* listeners of 'theme-changed' on window, in registration order: the logger
\* of alpine-init.js and, on a page that includes theme-transitions.js, its
\* effects listener, both registered at DOMContentLoaded
WindowListeners ==
    IF ~domReady THEN << >>
    ELSE IF transitions THEN << "logger", "effects" >> ELSE << "logger" >>

\* listeners of 'theme-changed' on document: one per chart
DocumentListeners == [i \in 1..charts |-> "chart"]

\* the detail object of a theme-changed event
Event(theme, dark) == [theme |-> theme, isDark |-> dark]

\* the effects listener of theme-transitions.js: addSpaceEffects appends a
\* new #stars-background element; addNeonEffects and addContrastEffects leave
\* the stars alone; removeSpecialEffects removes the element getElementById
\* finds, that is one of them
effects(theme, w) ==
    IF theme = "space" THEN [w EXCEPT !.stars = @ + 1]
    ELSE IF theme \in {"neon", "contrast"} THEN w
    ELSE [w EXCEPT !.stars = IF @ > 0 THEN @ - 1 ELSE 0]

\* dispatch that lets a subscriber's exception stop the round
dispatchEvent_StopAtThrow(ev, w) ==
    LET ls    == WindowListeners
        first == IF \E i \in 1..Len(ls) : ls[i] \in throwing
                 THEN CHOOSE i \in 1..Len(ls) :
                        ls[i] \in throwing /\ \A j \in 1..(i-1) : ls[j] \notin throwing
                 ELSE Len(ls)
        w1    == IF \E i \in 1..first : ls[i] = "effects" /\ ls[i] \notin throwing
                 THEN effects(ev.theme, w) ELSE w
    IN  [w1 EXCEPT !.emitted = Append(@, ev),
                  !.ran = @ \o [i \in 1..first |->
                                  [listener |-> ls[i], threw |-> ls[i] \in throwing]]]

\* window.dispatchEvent(new CustomEvent('theme-changed', ...)): every listener
\* registered on window is invoked once, in registration order; an exception
\* of a listener is reported and the dispatch goes on.  Listeners registered
\* on document are not on the event's path.
dispatchEvent(ev, w) ==
    LET ls == WindowListeners
        w1 == IF \E i \in 1..Len(ls) : ls[i] = "effects" /\ ls[i] \notin throwing
              THEN effects(ev.theme, w) ELSE w
    IN  [w1 EXCEPT !.emitted = Append(@, ev),
                  !.ran = @ \o [i \in 1..Len(ls) |->
                                  [listener |-> ls[i], threw |-> ls[i] \in throwing]]]

\* the request of fetch('/update_theme_preference', ...)
Request(theme) == [theme |-> theme, csrf |-> csrfToken]

\* fetch(): the request leaves the page; by names the function whose
\* promise handlers wait for the answer
fetch(req, by, w) ==
    [w EXCEPT !.synced = Append(@, req),
              !.inflight = IF netMode = "queued"
                              THEN Append(@, [req |-> req, by |-> by]) ELSE @]

\* what a sync request can come to: a 2xx answer with status 'success', an
\* answer that is not ok, a network failure (the promise rejects)
Outcomes == {"success", "rejected", "failed"}

\* handlers that send the request again when it did not succeed
onSyncAnswer_Retry(entry, outcome, w) ==
    IF outcome = "success" THEN w
    ELSE fetch(entry.req, entry.by, Log("warn: Error updating theme preference", w))

\* the promise handlers: saveToServer has only .catch(console.error);
\* updateServerThemePreference throws on !response.ok and warns in .catch.
\* Neither touches the theme nor sends anything.
onSyncAnswer(entry, outcome, w) ==
    IF entry.by = "saveToServer"
    THEN (IF outcome = "failed"
             THEN Log("error: Failed to save theme preference", w) ELSE w)
    ELSE (IF outcome = "success"
             THEN w ELSE Log("warn: Error updating theme preference", w))

----------------------------------------------------------------------------
(* alpine-init.js *)

getPreferredColorScheme ==
    IF mediaAvail THEN (IF prefersDark THEN "dark" ELSE "light") ELSE DEFAULT_THEME

\* localStorage.getItem('theme'); null when localStorage is missing or throws
getSavedTheme(w) == IF storage \in {"ok", "readonly"} THEN w.stored ELSE NULL

\* the warning of getSavedTheme when getItem throws
getSavedThemeLog(w) ==
    IF storage = "denied" THEN Log("warn: Error accessing localStorage", w) ELSE w

isDarkTheme(theme) == theme = "dark" \/ theme \in PREMIUM_THEMES

isPremiumTheme(theme) == theme \in PREMIUM_THEMES

\* the operands the other way round: getPreferredColorScheme() || savedTheme
determineTheme_SystemFirst(w) == getPreferredColorScheme

\* savedTheme || getPreferredColorScheme()
determineTheme(w) ==
    IF getSavedTheme(w) # NULL THEN getSavedTheme(w) ELSE getPreferredColorScheme

ThemeClass(theme) == "theme-" \o theme

\* applyThemeToHTML without the "clear existing theme classes" loop
applyThemeToHTML_NoClear(theme, w) ==
    IF ~rootAvail THEN w
    ELSE LET cleared == w.rootClasses
             darked  == IF isDarkTheme(theme) THEN cleared \cup {"dark"}
                                              ELSE cleared \ {"dark"}
             classes == IF isPremiumTheme(theme) THEN darked \cup {ThemeClass(theme)}
                                                 ELSE darked
         IN  [w EXCEPT !.rootClasses = classes, !.currentTheme = theme]

applyThemeToHTML(theme, w) ==
    IF ~rootAvail THEN w
    ELSE LET cleared == w.rootClasses \ { ThemeClass(t) : t \in PREMIUM_THEMES }
             darked  == IF isDarkTheme(theme) THEN cleared \cup {"dark"}
                                              ELSE cleared \ {"dark"}
             classes == IF isPremiumTheme(theme) THEN darked \cup {ThemeClass(theme)}
                                                 ELSE darked
         IN  [w EXCEPT !.rootClasses = classes, !.currentTheme = theme]

\* initializeTheme()
initializeTheme(w) == applyThemeToHTML(determineTheme(w), getSavedThemeLog(w))

\* document.body && document.body.getAttribute('data-premium') === 'true'
hasPremium == bodyAvail /\ premium

\* document.body has data-user-authenticated = 'true'
isAuthenticated == bodyAvail /\ authenticated

\* Alpine.store('theme').saveToServer: one POST carrying the theme; a
\* missing token is sent as ''
saveToServer(themeName, w) == fetch(Request(themeName), "saveToServer", w)

\* apply that stores current but forgets to recompute isDark
StoreApply_StaleIsDark(themeName, w) ==
    LET w1 == applyThemeToHTML(themeName, w)
        w2 == [w1 EXCEPT !.current = themeName]
        w3 == IF storage = "ok" THEN [w2 EXCEPT !.stored = themeName] ELSE w2
        w4 == IF bodyAvail THEN [w3 EXCEPT !.bodyTheme = themeName] ELSE w3
        w5 == IF isAuthenticated THEN saveToServer(themeName, w4) ELSE w4
    IN  IF storage \in {"readonly", "denied"}
        THEN Log("error: Error applying theme", w2)
        ELSE dispatchEvent(Event(themeName, w5.isDark), w5)

\* Alpine.store('theme').apply: a throw of localStorage.setItem is caught at
\* the end of the method, so the statements after it do not run.
StoreApply(themeName, w) ==
    LET w1 == applyThemeToHTML(themeName, w)
        w2 == [w1 EXCEPT !.current = themeName, !.isDark = isDarkTheme(themeName)]
        w3 == IF storage = "ok" THEN [w2 EXCEPT !.stored = themeName] ELSE w2
        w4 == IF bodyAvail THEN [w3 EXCEPT !.bodyTheme = themeName] ELSE w3
        w5 == IF isAuthenticated THEN saveToServer(themeName, w4) ELSE w4
    IN  IF storage \in {"readonly", "denied"}
        THEN Log("error: Error applying theme", w2)
        ELSE dispatchEvent(Event(themeName, w5.isDark), w5)

\* the check written as  !body.getAttribute('data-premium') === 'true' : the
\* negation is applied first, a boolean never equals 'true', nothing is rejected
SetRejects_NegatedFirst(themeName) == isPremiumTheme(themeName) /\ FALSE

\* the premium check of Alpine.store('theme').set
SetRejects(themeName) == isPremiumTheme(themeName) /\ ~hasPremium

StoreSet(themeName, w) ==
    IF SetRejects(themeName)
    THEN Log("warn: Cannot apply premium theme", w)
    ELSE LET w1 == [w EXCEPT !.current = themeName, !.isDark = isDarkTheme(themeName)]
             w2 == StoreApply(themeName, w1)
         IN  [w2 EXCEPT !.menuOpen = FALSE]

StoreToggle(w) ==
    LET w1 == [w EXCEPT !.isDark = ~w.isDark]
        w2 == [w1 EXCEPT !.current = IF w1.isDark THEN "dark" ELSE "light"]
    IN  StoreApply(w2.current, w2)

\* a listener that also persists the system theme it applies
AlpineWatcher_Persists(matches, w) ==
    IF getSavedTheme(w) = NULL
    THEN LET newTheme == IF matches THEN "dark" ELSE "light"
             w1 == applyThemeToHTML(newTheme, getSavedThemeLog(w))
             w2 == IF storage = "ok" THEN [w1 EXCEPT !.stored = newTheme] ELSE w1
         IN  IF bodyAvail THEN [w2 EXCEPT !.bodyTheme = newTheme] ELSE w2
    ELSE w

\* the prefers-color-scheme listener registered at DOMContentLoaded
AlpineWatcher(matches, w) ==
    IF getSavedTheme(w) = NULL
    THEN LET newTheme == IF matches THEN "dark" ELSE "light"
             w1 == applyThemeToHTML(newTheme, getSavedThemeLog(w))
         IN  IF bodyAvail THEN [w1 EXCEPT !.bodyTheme = newTheme] ELSE w1
    ELSE w

----------------------------------------------------------------------------
(* theme-toggle.js *)

\* getThemePreference(): any storage failure falls to DEFAULT_THEME
getThemePreference(w) ==
    IF storage \in {"denied", "undefined"} THEN DEFAULT_THEME
    ELSE IF w.stored # NULL THEN w.stored
    ELSE IF mediaAvail /\ prefersDark THEN "dark" ELSE DEFAULT_THEME

\* the warnings of the DOMContentLoaded handler: getThemePreference and the
\* registration of the media query listener
toggleSetupLog(w) ==
    LET w1 == IF storage \in {"denied", "undefined"}
                 THEN Log("warn: Error accessing localStorage", w)
              ELSE IF w.stored = NULL /\ ~mediaAvail
                 THEN Log("warn: Could not detect system theme preference", w)
              ELSE w
    IN  IF mediaAvail THEN w1
        ELSE Log("warn: Could not set up theme media query listener", w1)

\* applyTheme that flips the dark class (classList.toggle) instead of adding it
applyTheme_ToggleDark(theme, w) ==
    IF ~rootAvail THEN Log("warn: Document not available for theme application", w)
    ELSE LET dark    == theme = "dark" \/ theme \in PREMIUM_THEMES
             cleared == w.rootClasses \ { ThemeClass(t) : t \in REGISTRY }
             darked  == IF dark /\ "dark" \notin cleared THEN cleared \cup {"dark"}
                                                         ELSE cleared \ {"dark"}
             classes == IF theme \in PREMIUM_THEMES THEN darked \cup {ThemeClass(theme)}
                                                    ELSE darked
             w1 == [w EXCEPT !.rootClasses = classes]
             w2 == IF bodyAvail THEN [w1 EXCEPT !.bodyTheme = theme] ELSE w1
         IN  dispatchEvent(Event(theme, dark), w2)

applyTheme(theme, w) ==
    IF ~rootAvail THEN Log("warn: Document not available for theme application", w)
    ELSE LET dark    == theme = "dark" \/ theme \in PREMIUM_THEMES
             cleared == w.rootClasses \ { ThemeClass(t) : t \in REGISTRY }
             darked  == IF dark THEN cleared \cup {"dark"} ELSE cleared \ {"dark"}
             classes == IF theme \in PREMIUM_THEMES THEN darked \cup {ThemeClass(theme)}
                                                    ELSE darked
             w1 == [w EXCEPT !.rootClasses = classes]
             w2 == IF bodyAvail THEN [w1 EXCEPT !.bodyTheme = theme] ELSE w1
         IN  dispatchEvent(Event(theme, dark), w2)

\* updateServerThemePreference: one POST carrying the theme; a missing
\* token is sent as '' without a message
updateServerThemePreference(theme, w) ==
    fetch(Request(theme), "updateServerThemePreference", w)

\* window.setTheme; it exists only after DOMContentLoaded, so readyState is
\* 'interactive' or 'complete' whenever it runs.
setTheme(theme, w) ==
    IF theme = NULL THEN w
    ELSE LET w1 == applyTheme(theme, w)
             w2 == IF storage = "ok" THEN [w1 EXCEPT !.stored = theme]
                   ELSE IF storage \in {"readonly", "denied"}
                        THEN Log("warn: Failed to save theme to localStorage", w1)
                   ELSE w1
         IN  IF isAuthenticated THEN updateServerThemePreference(theme, w2) ELSE w2

\* the prefers-color-scheme listener; a throwing localStorage is caught
ToggleWatcher(matches, w) ==
    IF storage \in {"denied", "undefined"}
    THEN Log("warn: Error handling theme media query change", w)
    ELSE IF w.stored = NULL
    THEN applyTheme(IF matches THEN "dark" ELSE "light", w)
    ELSE w

----------------------------------------------------------------------------
(* Initial states *)

\* window.ThemeManager before init(): no field is assigned yet
TMFresh ==
    [ inited |-> FALSE, theme |-> NULL, selectedTheme |-> NULL,
      darkMode |-> FALSE, premium |-> FALSE, watching |-> FALSE ]

\* a socket nobody listens to yet
SockFresh == [ listeners |-> << >>, setups |-> 0 ]

\* Alpine.store('app') as created: no notification, no timer; now is Date.now()
AppFresh == [ notifications |-> << >>, timers |-> << >>, now |-> 0 ]

\* the elements that carry the collapse directive
Elements == {"menu", "panel"}

\* an element before the directive is bound to it: height is
\* el.style.height, listeners its transitionend listeners in registration
\* order (the last one is the variable transitionEndCallback), running says
\* a height transition is under way, value is the last evaluated expression
CollElement ==
    [ bound |-> FALSE, isCollapsed |-> FALSE, height |-> "", value |-> FALSE,
      listeners |-> << >>, running |-> FALSE ]

CollFresh == [e \in Elements |-> CollElement]

\* a page before any script has run
FreshPage ==
    /\ bodyAvail = FALSE
    /\ loaded = FALSE
    /\ storeReady = FALSE
    /\ domReady = FALSE
    /\ initialTheme = NULL
    /\ currentTheme = DEFAULT_THEME
    /\ current = NULL
    /\ isDark = FALSE
    /\ menuOpen = FALSE
    /\ rootClasses = {}
    /\ bodyTheme = NULL
    /\ bodyClasses = {}
    /\ charts = 0
    /\ inflight = << >>
    /\ serverTheme = NULL
    /\ emitted = << >>
    /\ ran = << >>
    /\ synced = << >>
    /\ logged = << >>
    /\ thrown = FALSE
    /\ tm = TMFresh
    /\ stars = 0
    /\ sock = SockFresh
    /\ app = AppFresh
    /\ coll = CollFresh
    /\ source = "DEFAULT"
    /\ lastOp = [op |-> "none", arg |-> NULL]
    /\ repeated = FALSE

Init ==
    /\ storage \in StorageModes
    /\ stored \in IF storage \in {"ok", "readonly"} THEN ThemeArgs \cup {NULL} ELSE {NULL}
    /\ mediaAvail \in BOOLEAN
    /\ prefersDark \in IF mediaAvail THEN BOOLEAN ELSE {FALSE}
    /\ premium \in BOOLEAN
    /\ authenticated \in BOOLEAN
    /\ rootAvail \in BOOLEAN
    /\ csrfToken = "token"
    /\ netMode = "elided"
    /\ throwing = {}
    /\ transitions = FALSE
    /\ FreshPage

----------------------------------------------------------------------------
(* Operations *)

Op(name, arg) == [op |-> name, arg |-> arg]

Record(o) == lastOp' = o /\ repeated' = (lastOp = o)

\* The parser reaches <body>: documentElement and body exist from here on.
BodyParsed ==
    /\ ~bodyAvail
    /\ rootAvail' = TRUE
    /\ bodyAvail' = TRUE
    /\ Commit(World)
    /\ Record(Op("bodyParsed", NULL))
    /\ UNCHANGED << Env, prefersDark, loaded, storeReady, domReady, initialTheme,
                    charts, serverTheme, source >>

\* Top level of alpine-init.js: initializeTheme().  After a reload the
\* history keeps the theme whose set the reload followed.
ScriptLoad ==
    /\ ~loaded
    /\ loaded' = TRUE
    /\ Commit(initializeTheme(World))
    /\ source' = IF getSavedTheme(World) # NULL THEN "EXPLICIT_USER"
                                                ELSE "SYSTEM_PREFERENCE"
    /\ Record(Op("load", IF lastOp.op = "reload" THEN lastOp.arg ELSE NULL))
    /\ UNCHANGED << Env, prefersDark, rootAvail, bodyAvail, storeReady, domReady,
                    initialTheme, charts, serverTheme >>

\* 'alpine:init': Alpine.store('theme', { current: determineTheme(),
\* isDark: isDarkTheme(determineTheme()), menuOpen: false, ... })
AlpineInit ==
    /\ loaded
    /\ ~storeReady
    /\ storeReady' = TRUE
    /\ Commit([getSavedThemeLog(getSavedThemeLog(World))
                 EXCEPT !.current = determineTheme(World),
                        !.isDark = isDarkTheme(determineTheme(World)),
                        !.menuOpen = FALSE])
    /\ Record(Op("alpineInit", NULL))
    /\ UNCHANGED << Env, prefersDark, rootAvail, bodyAvail, loaded, domReady,
                    initialTheme, charts, serverTheme, source >>

\* DOMContentLoaded: alpine-init.js mirrors currentTheme on the body and
\* registers its watcher and its logger; theme-toggle.js computes
\* window.__initialTheme, registers its watcher and defines window.setTheme;
\* theme-transitions.js registers its effects listener.
DOMContentLoaded ==
    /\ loaded
    /\ bodyAvail
    /\ ~domReady
    /\ domReady' = TRUE
    /\ Commit(toggleSetupLog([World EXCEPT !.bodyTheme = World.currentTheme]))
    /\ initialTheme' = getThemePreference(World)
    /\ Record(Op("domReady", NULL))
    /\ UNCHANGED << Env, prefersDark, rootAvail, bodyAvail, loaded, storeReady,
                    charts, serverTheme, source >>

\* room to follow one more sync request
CanSend == Len(inflight) < MaxInflight

\* room for one more sync request and one more stars layer
Room == CanSend /\ stars < MaxStars

\* Alpine.store('theme').set(themeName)
Set(themeName) ==
    /\ storeReady
    /\ Room
    /\ Commit(StoreSet(themeName, World))
    /\ source' = IF SetRejects(themeName) THEN source ELSE "EXPLICIT_USER"
    /\ Record(Op("set", themeName))
    /\ UNCHANGED << Env, Life, prefersDark, initialTheme, charts, serverTheme >>

\* Alpine.store('theme').apply(themeName)
Apply(themeName) ==
    /\ storeReady
    /\ Room
    /\ Commit(StoreApply(themeName, World))
    /\ source' = "EXPLICIT_USER"
    /\ Record(Op("apply", themeName))
    /\ UNCHANGED << Env, Life, prefersDark, initialTheme, charts, serverTheme >>

\* Alpine.store('theme').toggle()
Toggle ==
    /\ storeReady
    /\ Room
    /\ Commit(StoreToggle(World))
    /\ source' = "EXPLICIT_USER"
    /\ Record(Op("toggle", NULL))
    /\ UNCHANGED << Env, Life, prefersDark, initialTheme, charts, serverTheme >>

\* window.setTheme(theme)
SetTheme(theme) ==
    /\ domReady
    /\ Room
    /\ Commit(setTheme(theme, World))
    /\ source' = IF theme = NULL THEN source ELSE "EXPLICIT_USER"
    /\ Record(Op("setTheme", theme))
    /\ UNCHANGED << Env, Life, prefersDark, initialTheme, charts, serverTheme >>

\* The OS colour scheme flips.  Once DOMContentLoaded has registered them,
\* the two 'change' listeners run one after the other.
SystemPreferenceChange ==
    LET matches == ~prefersDark
        w == IF domReady THEN ToggleWatcher(matches, AlpineWatcher(matches, World))
                         ELSE World
    IN  /\ loaded
        /\ mediaAvail
        /\ prefersDark' = matches
        /\ Commit(w)
        /\ source' = IF domReady /\ (getSavedTheme(World) = NULL \/ w.emitted # << >>)
                        THEN "SYSTEM_PREFERENCE" ELSE source
        /\ Record(Op("osChange", IF matches THEN "dark" ELSE "light"))
        /\ UNCHANGED << Env, Life, initialTheme, charts, serverTheme >>

\* The user reloads the page: localStorage and the environment stay, the
\* document and the scripts' state start afresh.  The history keeps the
\* theme of the accepted set the reload follows directly.
Reload ==
    /\ loaded
    /\ rootAvail' \in BOOLEAN
    /\ bodyAvail' = FALSE
    /\ loaded' = FALSE
    /\ storeReady' = FALSE
    /\ domReady' = FALSE
    /\ initialTheme' = NULL
    /\ currentTheme' = DEFAULT_THEME
    /\ current' = NULL
    /\ isDark' = FALSE
    /\ menuOpen' = FALSE
    /\ rootClasses' = {}
    /\ bodyTheme' = NULL
    /\ bodyClasses' = {}
    /\ charts' = 0
    /\ emitted' = << >>
    /\ ran' = << >>
    /\ synced' = << >>
    /\ logged' = << >>
    /\ thrown' = FALSE
    /\ tm' = TMFresh
    /\ stars' = 0
    /\ sock' = SockFresh
    /\ app' = AppFresh
    /\ coll' = CollFresh
    /\ source' = "DEFAULT"
    /\ Record(Op("reload", IF lastOp.op = "set" /\ ~SetRejects(lastOp.arg)
                              THEN lastOp.arg ELSE NULL))
    /\ UNCHANGED << Env, prefersDark, stored, inflight, serverTheme >>

Next ==
    \/ BodyParsed
    \/ ScriptLoad
    \/ AlpineInit
    \/ DOMContentLoaded
    \/ \E themeName \in ThemeArgs : Set(themeName)
    \/ \E themeName \in ThemeArgs : Apply(themeName)
    \/ Toggle
    \/ \E theme \in ThemeArgs \cup {NULL} : SetTheme(theme)
    \/ SystemPreferenceChange
    \/ Reload

Spec == Init /\ [][Next]_vars

TypeOK ==
    /\ storage \in StorageModes
    /\ stored \in ThemeArgs \cup {NULL}
    /\ current \in ThemeArgs \cup {NULL}
    /\ currentTheme \in ThemeArgs
    /\ bodyTheme \in ThemeArgs \cup {NULL}
    /\ rootClasses \subseteq {"dark"} \cup { ThemeClass(t) : t \in REGISTRY }
    /\ source \in Sources
    /\ Len(emitted) <= 2
    /\ Len(synced) <= 1
    /\ Len(inflight) <= MaxInflight
    /\ charts \in 0..MaxCharts

----------------------------------------------------------------------------
(* The page with its sync requests followed *)

\* the themes set in SpecSync
SyncThemes == {"light", "dark", "space"}

InitSync ==
    /\ storage = "ok"
    /\ stored = NULL
    /\ mediaAvail = TRUE
    /\ prefersDark = FALSE
    /\ premium \in BOOLEAN
    /\ authenticated \in BOOLEAN
    /\ rootAvail = TRUE
    /\ csrfToken \in {"", "token"}
    /\ netMode = "queued"
    /\ throwing = {}
    /\ transitions = FALSE
    /\ FreshPage

RemoveAt(s, i) == SubSeq(s, 1, i - 1) \o SubSeq(s, i + 1, Len(s))

\* The answer to the i-th pending request arrives (answers may overtake one
\* another), or the request fails.  The server stores the theme of a
\* request it accepts.
SyncAnswer(i, outcome) ==
    /\ netMode = "queued"
    /\ i \in 1..Len(inflight)
    /\ Commit(onSyncAnswer(inflight[i], outcome,
                           [World EXCEPT !.inflight = RemoveAt(inflight, i)]))
    /\ serverTheme' = IF outcome = "success" THEN inflight[i].req.theme
                                             ELSE serverTheme
    /\ Record(Op("syncAnswer", outcome))
    /\ UNCHANGED << Env, Life, prefersDark, initialTheme, charts, source >>

NextSync ==
    \/ BodyParsed
    \/ ScriptLoad
    \/ AlpineInit
    \/ DOMContentLoaded
    \/ \E themeName \in SyncThemes : Set(themeName)
    \/ Toggle
    \/ \E theme \in SyncThemes : SetTheme(theme)
    \/ \E i \in 1..MaxInflight, outcome \in Outcomes : SyncAnswer(i, outcome)

SpecSync == InitSync /\ [][NextSync]_vars

\* the same page on a network and a server that never fail: every request
\* is answered with success, in any order
NextSyncOk ==
    \/ BodyParsed
    \/ ScriptLoad
    \/ AlpineInit
    \/ DOMContentLoaded
    \/ \E themeName \in SyncThemes : Set(themeName)
    \/ Toggle
    \/ \E theme \in SyncThemes : SetTheme(theme)
    \/ \E i \in 1..MaxInflight : SyncAnswer(i, "success")

SpecSyncOk == InitSync /\ [][NextSyncOk]_vars

----------------------------------------------------------------------------
(* The page with its theme-changed subscribers and the animated transition *)

\* the themes set in SpecWidgets
WidgetThemes == {"light", "dark", "space"}

InitWidgets ==
    /\ storage = "ok"
    /\ stored = NULL
    /\ mediaAvail = TRUE
    /\ prefersDark = FALSE
    /\ premium \in BOOLEAN
    /\ authenticated = FALSE
    /\ rootAvail = TRUE
    /\ csrfToken = "token"
    /\ netMode = "elided"
    /\ throwing \in SUBSET {"logger", "effects"}
    /\ transitions = TRUE
    /\ FreshPage

\* createResponsiveChart: a chart is made and its re-themer is registered
\* with document.addEventListener('theme-changed', ...)
CreateChart ==
    /\ domReady
    /\ charts < MaxCharts
    /\ charts' = charts + 1
    /\ Commit(World)
    /\ Record(Op("createChart", NULL))
    /\ UNCHANGED << Env, Life, prefersDark, initialTheme, serverTheme, source >>

\* the theme step of AstroBotTheme.transitions.crossfade(newTheme): the
\* body's theme classes and data-theme are rewritten; nothing else is
crossfade(newTheme, w) ==
    LET cleared == w.bodyClasses \ ({"light", "dark"} \cup
                                    { ThemeClass(t) : t \in PREMIUM_THEMES })
        classes == IF newTheme = "light" THEN cleared \cup {"light"}
                   ELSE IF newTheme \in { ThemeClass(t) : t \in PREMIUM_THEMES }
                        THEN cleared \cup {"dark", newTheme}
                   ELSE cleared \cup {"dark"}
    IN  [w EXCEPT !.bodyClasses = classes, !.bodyTheme = newTheme]

\* a click on a [data-theme-select] element: AstroBotTheme.fade(theme)
Crossfade(newTheme) ==
    /\ domReady
    /\ Commit(crossfade(newTheme, World))
    /\ Record(Op("crossfade", newTheme))
    /\ UNCHANGED << Env, Life, prefersDark, initialTheme, charts, serverTheme,
                    source >>

NextWidgets ==
    \/ BodyParsed
    \/ ScriptLoad
    \/ AlpineInit
    \/ DOMContentLoaded
    \/ \E themeName \in WidgetThemes : Set(themeName)
    \/ Toggle
    \/ \E theme \in WidgetThemes : SetTheme(theme)
    \/ CreateChart
    \/ \E newTheme \in WidgetThemes : Crossfade(newTheme)

SpecWidgets == InitWidgets /\ [][NextWidgets]_vars

----------------------------------------------------------------------------
(* ThemeManager: the theme component registered as Alpine data.  Its calls  *)
(* to localStorage, matchMedia and documentElement have no guard: a failure *)
(* leaves the method at that statement with the exception.                  *)

\* an uncaught exception: the rest of the method does not run
Throw(w) == [w EXCEPT !.thrown = TRUE]

\* isDarkMode(): [DARK, SPACE, NEON].includes(this.theme)
isDarkMode(w) == w.tm.theme \in {"dark", "space", "neon"}

\* hasDarkBackground(), and the isDark of setTheme
hasDarkBackground(theme) == theme \in {"dark", "space", "neon", "contrast"}

\* dispatchThemeChanged(theme)
dispatchThemeChanged(theme, w) == dispatchEvent(Event(theme, isDarkMode(w)), w)

\* ThemeManager.setTheme(theme)
tmSetTheme(theme, w) ==
    IF ~rootAvail THEN Throw(w)
    ELSE LET themed  == (w.rootClasses \ { ThemeClass(t) : t \in REGISTRY })
                          \cup (IF theme \in REGISTRY THEN {ThemeClass(theme)} ELSE {})
             classes == IF hasDarkBackground(theme) THEN themed \cup {"dark"}
                                                     ELSE themed \ {"dark"}
             w1 == [w EXCEPT !.rootClasses = classes,
                             !.tm.theme = theme,
                             !.tm.selectedTheme = theme]
             w2 == [w1 EXCEPT !.tm.darkMode = isDarkMode(w1)]
         IN  dispatchThemeChanged(theme, w2)

\* saveThemePreference(theme): localStorage.setItem without a guard
saveThemePreference(theme, w) ==
    IF storage # "ok" THEN Throw(w)
    ELSE dispatchThemeChanged(theme, [w EXCEPT !.stored = theme])

\* ThemeManager.init()
tmInit(w) ==
    LET w0 == [w EXCEPT !.tm.inited = TRUE]
    IN  IF storage \in {"denied", "undefined"} THEN Throw(w0)
        ELSE IF w.stored = NULL /\ ~mediaAvail THEN Throw(w0)
        ELSE LET theme == IF w.stored # NULL THEN w.stored
                          ELSE IF prefersDark THEN "dark" ELSE "light"
                 w1 == tmSetTheme(theme, [w0 EXCEPT !.tm.theme = theme])
                 w2 == [w1 EXCEPT !.tm.premium = FALSE,
                                  !.tm.darkMode = isDarkMode(w1),
                                  !.tm.selectedTheme = w1.tm.theme]
             IN  IF w1.thrown THEN w1
                 ELSE IF ~mediaAvail THEN Throw(w2)
                 ELSE [w2 EXCEPT !.tm.watching = TRUE]

\* toggleDarkMode()
toggleDarkMode(w) ==
    LET newTheme == IF isDarkMode(w) THEN "light" ELSE "dark"
        w1 == tmSetTheme(newTheme, [w EXCEPT !.tm.darkMode = ~w.tm.darkMode])
    IN  IF w1.thrown THEN w1 ELSE saveThemePreference(newTheme, w1)

\* setPremiumTheme(themeId)
setPremiumTheme(themeId, w) ==
    IF ~w.tm.premium /\ isPremiumTheme(themeId) THEN w
    ELSE IF themeId \in REGISTRY
    THEN LET w1 == [w EXCEPT !.tm.selectedTheme = themeId,
                             !.tm.darkMode = (themeId = "dark" \/ isPremiumTheme(themeId))]
             w2 == tmSetTheme(themeId, w1)
         IN  IF w2.thrown THEN w2 ELSE saveThemePreference(themeId, w2)
    ELSE w

\* a reset that applies the system theme but leaves the stored preference
resetToSystemTheme_KeepsStored(w) ==
    IF storage \in {"denied", "undefined"} THEN Throw(w)
    ELSE LET w1 == w
             preferredTheme == IF prefersDark THEN "dark" ELSE "light"
             w2 == tmSetTheme(preferredTheme, w1)
             w3 == [w2 EXCEPT !.tm.darkMode = (preferredTheme = "dark"),
                              !.tm.selectedTheme = preferredTheme]
         IN  IF ~mediaAvail THEN Throw(w1)
             ELSE IF w2.thrown THEN w2
             ELSE dispatchThemeChanged(preferredTheme, w3)

\* resetToSystemTheme()
resetToSystemTheme(w) ==
    IF storage \in {"denied", "undefined"} THEN Throw(w)
    ELSE LET w1 == [w EXCEPT !.stored = NULL]
             preferredTheme == IF prefersDark THEN "dark" ELSE "light"
             w2 == tmSetTheme(preferredTheme, w1)
             w3 == [w2 EXCEPT !.tm.darkMode = (preferredTheme = "dark"),
                              !.tm.selectedTheme = preferredTheme]
         IN  IF ~mediaAvail THEN Throw(w1)
             ELSE IF w2.thrown THEN w2
             ELSE dispatchThemeChanged(preferredTheme, w3)

\* the 'change' listener registered by init()
tmWatcher(matches, w) ==
    IF storage \in {"denied", "undefined"} THEN Throw(w)
    ELSE IF w.stored = NULL
    THEN tmSetTheme(IF matches THEN "dark" ELSE "light",
                    [w EXCEPT !.tm.darkMode = matches])
    ELSE w

InitTM ==
    /\ storage \in StorageModes
    /\ stored \in IF storage \in {"ok", "readonly"} THEN REGISTRY \cup {NULL} ELSE {NULL}
    /\ mediaAvail \in BOOLEAN
    /\ prefersDark \in IF mediaAvail THEN BOOLEAN ELSE {FALSE}
    /\ premium = FALSE
    /\ authenticated = FALSE
    /\ rootAvail = TRUE
    /\ csrfToken = "token"
    /\ netMode = "elided"
    /\ throwing = {}
    /\ transitions = FALSE
    /\ FreshPage

\* src is the reason the theme holds its value after the call (history)
TMOp(name, arg, w, src) ==
    /\ Commit(w)
    /\ Record(Op(name, arg))
    /\ source' = src
    /\ UNCHANGED << Env, Life, prefersDark, initialTheme, charts, serverTheme >>

\* Alpine evaluates x-data="themeManager" and calls init()
TMInit ==
    /\ bodyAvail
    /\ ~tm.inited
    /\ TMOp("tmInit", NULL, tmInit(World),
            IF tmInit(World).tm.theme = NULL THEN source
            ELSE IF stored # NULL THEN "EXPLICIT_USER" ELSE "SYSTEM_PREFERENCE")

TMToggleDarkMode ==
    /\ tm.inited
    /\ TMOp("toggleDarkMode", NULL, toggleDarkMode(World), "EXPLICIT_USER")

TMSetPremiumTheme(themeId) ==
    /\ tm.inited
    /\ TMOp("setPremiumTheme", themeId, setPremiumTheme(themeId, World),
            IF setPremiumTheme(themeId, World) = World THEN source ELSE "EXPLICIT_USER")

TMResetToSystemTheme ==
    /\ tm.inited
    /\ TMOp("resetToSystemTheme", NULL, resetToSystemTheme(World),
            IF resetToSystemTheme(World).thrown THEN source ELSE "SYSTEM_PREFERENCE")

\* the OS colour scheme flips; the listener exists when init() reached its
\* registration
TMSystemPreferenceChange ==
    /\ tm.inited
    /\ mediaAvail
    /\ prefersDark' = ~prefersDark
    /\ Commit(IF tm.watching THEN tmWatcher(~prefersDark, World) ELSE World)
    /\ Record(Op("tmOsChange", IF ~prefersDark THEN "dark" ELSE "light"))
    /\ UNCHANGED << Env, Life, initialTheme, charts, serverTheme, source >>

NextTM ==
    \/ BodyParsed
    \/ TMInit
    \/ TMToggleDarkMode
    \/ \E themeId \in ThemeArgs : TMSetPremiumTheme(themeId)
    \/ TMResetToSystemTheme
    \/ TMSystemPreferenceChange

SpecTM == InitTM /\ [][NextTM]_vars

----------------------------------------------------------------------------
(* dashboard-utils.js: theme utilities *)

\* AstroBotUtils.theme.getCurrentTheme(): the theme is read off the BODY's
\* class list, in this order of precedence, 'light' when no class matches
\* or the body is missing
getCurrentTheme(w) ==
    IF ~bodyAvail THEN "light"
    ELSE IF ThemeClass("contrast") \in w.bodyClasses THEN "contrast"
    ELSE IF ThemeClass("neon") \in w.bodyClasses THEN "neon"
    ELSE IF ThemeClass("space") \in w.bodyClasses THEN "space"
    ELSE IF ThemeClass("dark") \in w.bodyClasses THEN "dark"
    ELSE "light"

----------------------------------------------------------------------------
(* dashboard-utils.js: socket event handlers *)

\* event names used as keys of the handlers object, in insertion order
SocketEvents == << "status", "error" >>

\* what a value of the handlers object can be: a function, a function that
\* throws when called, something that is not a function
HandlerKinds == {"fn", "throws", "string"}

\* the handlers objects: a value for some of the keys
HandlerObjects ==
    UNION { [S -> HandlerKinds] : S \in SUBSET { SocketEvents[i] : i \in 1..Len(SocketEvents) } }

\* the socket argument: a socket, null, an object without an on method
SocketKinds == {"ok", "null", "noOn"}

\* the generic handlers added for the events the handlers object leaves out
GenericEvents == << "error", "disconnect", "reconnect" >>

\* the listeners one call registers; safe says the handler is wrapped in
\* safeHandler's try/catch
Registered(handlers, safe) ==
    LET Given(e) == e \in DOMAIN handlers /\ handlers[e] # "string"
        Missing(e) == e \notin DOMAIN handlers
        own == SelectSeq(SocketEvents, Given)
        gen == SelectSeq(GenericEvents, Missing)
    IN  [i \in 1..Len(own) |-> [event |-> own[i], kind |-> handlers[own[i]], safe |-> safe]]
        \o [i \in 1..Len(gen) |-> [event |-> gen[i], kind |-> "generic", safe |-> TRUE]]

\* the warnings of one call for the entries that are not functions
Skipped(handlers) ==
    LET NotFn(e) == e \in DOMAIN handlers /\ handlers[e] = "string"
        bad == SelectSeq(SocketEvents, NotFn)
    IN  [i \in 1..Len(bad) |-> "warn: Handler is not a function, skipping"]

\* registration of the handlers themselves, without the safeHandler wrapper
setupSocketEventHandlers_Unwrapped(socket, handlers, w) ==
    IF socket = "null" THEN Log("warn: No socket instance provided", w)
    ELSE IF socket = "noOn" THEN Log("warn: Socket does not have an on method", w)
    ELSE [w EXCEPT !.sock.listeners = @ \o Registered(handlers, FALSE),
                   !.logged = @ \o Skipped(handlers)]

\* AstroBotUtils.socket.setupSocketEventHandlers(socket, handlers)
setupSocketEventHandlers(socket, handlers, w) ==
    IF socket = "null" THEN Log("warn: No socket instance provided", w)
    ELSE IF socket = "noOn" THEN Log("warn: Socket does not have an on method", w)
    ELSE [w EXCEPT !.sock.listeners = @ \o Registered(handlers, TRUE),
                   !.logged = @ \o Skipped(handlers)]

\* the socket emits an event: its listeners for the event are called in
\* registration order; the emitter has no try/catch, so an exception that
\* leaves a listener ends the round and reaches the socket
socketEmit(event, w) ==
    LET For(l) == l.event = event
        ls == SelectSeq(w.sock.listeners, For)
        Escapes(l) == l.kind = "throws" /\ ~l.safe
        last == IF \E i \in 1..Len(ls) : Escapes(ls[i])
                THEN CHOOSE i \in 1..Len(ls) :
                        Escapes(ls[i]) /\ \A j \in 1..(i-1) : ~Escapes(ls[j])
                ELSE Len(ls)
        called == SubSeq(ls, 1, last)
        Loud(l) == (l.kind = "throws" /\ l.safe) \/ (l.kind = "generic" /\ l.event # "reconnect")
        loud == SelectSeq(called, Loud)
    IN  [w EXCEPT !.ran = @ \o [i \in 1..last |-> [listener |-> ls[i], threw |-> Escapes(ls[i])]],
                  !.logged = @ \o [i \in 1..Len(loud) |->
                                     IF loud[i].kind = "throws"
                                     THEN "error: Error in socket event handler"
                                     ELSE IF loud[i].event = "error" THEN "error: Socket.io error"
                                     ELSE "warn: Socket disconnected"],
                  !.thrown = \E i \in 1..Len(ls) : Escapes(ls[i])]

InitSocket ==
    /\ storage = "ok"
    /\ stored = NULL
    /\ mediaAvail = TRUE
    /\ prefersDark = FALSE
    /\ premium = FALSE
    /\ authenticated = TRUE
    /\ rootAvail = TRUE
    /\ csrfToken = "token"
    /\ netMode = "elided"
    /\ throwing = {}
    /\ transitions = FALSE
    /\ FreshPage

Still == << Env, Life, prefersDark, initialTheme, charts, serverTheme, source >>

SocketSetup(socket, handlers) ==
    /\ sock.setups < MaxSetups
    /\ Commit(setupSocketEventHandlers(socket, handlers,
                                       [World EXCEPT !.sock.setups = @ + 1]))
    /\ Record(Op("socketSetup", socket))
    /\ UNCHANGED Still

SocketEmit(event) ==
    /\ Commit(socketEmit(event, World))
    /\ Record(Op("socketEmit", event))
    /\ UNCHANGED Still

NextSocket ==
    \/ \E socket \in SocketKinds, handlers \in HandlerObjects : SocketSetup(socket, handlers)
    \/ \E event \in {"status", "error", "disconnect"} : SocketEmit(event)

SpecSocket == InitSocket /\ [][NextSocket]_vars

----------------------------------------------------------------------------
(* alpine-collapse.js: the collapse directive, per element *)

\* collapse(): nothing when the flag says collapsed; else the height goes
\* to 0px under a transition and a callback waits for transitionend
collapse(c) ==
    IF c.isCollapsed THEN c
    ELSE [c EXCEPT !.height = "0px",
                   !.listeners = Append(@, "collapsed"),
                   !.running = TRUE]

\* expand(): nothing when the flag says not collapsed; else the height goes
\* to scrollHeight px (a transition starts when that changes the height)
\* and a callback waits for transitionend
expand(c) ==
    IF ~c.isCollapsed THEN c
    ELSE [c EXCEPT !.height = "px",
                   !.listeners = Append(@, "expanded"),
                   !.running = (c.height # "px") \/ c.running]

\* the effect: evaluate(value => value ? expand() : collapse())
evaluated(value, c) ==
    LET c1 == [c EXCEPT !.value = value]
    IN  IF value THEN expand(c1) ELSE collapse(c1)

\* the directive's set-up: isCollapsed = !el.style.height, a collapsed
\* element gets height 0px, then the effect runs once
directive(height, value, c) ==
    LET c1 == [c EXCEPT !.bound = TRUE,
                        !.isCollapsed = (height = ""),
                        !.height = IF height = "" THEN "0px" ELSE height]
    IN  evaluated(value, c1)

\* one transitionend callback: the collapse one sets the flag, the expand
\* one sets height auto and clears the flag
callback(kind, c) ==
    IF kind = "collapsed" THEN [c EXCEPT !.isCollapsed = TRUE]
    ELSE [c EXCEPT !.height = "auto", !.isCollapsed = FALSE]

RECURSIVE runCallbacks(_, _, _)
runCallbacks(c, ls, n) ==
    IF n = 0 THEN c ELSE callback(ls[n], runCallbacks(c, ls, n - 1))

\* transitionend: the listeners run in registration order.  Each callback
\* ends with removeEventListener('transitionend', transitionEndCallback),
\* which names the LAST registered callback: with one listener it removes
\* itself; with several the first one removes the last before its turn and
\* the older ones stay registered.
transitionend(c) ==
    LET n == Len(c.listeners)
        m == IF n > 1 THEN n - 1 ELSE n
        c1 == runCallbacks(c, c.listeners, m)
    IN  [c1 EXCEPT !.listeners = IF n > 1 THEN SubSeq(c.listeners, 1, n - 1) ELSE << >>,
                   !.running = FALSE]

InitCollapse ==
    /\ storage = "ok"
    /\ stored = NULL
    /\ mediaAvail = TRUE
    /\ prefersDark = FALSE
    /\ premium = FALSE
    /\ authenticated = FALSE
    /\ rootAvail = TRUE
    /\ csrfToken = "token"
    /\ netMode = "elided"
    /\ throwing = {}
    /\ transitions = FALSE
    /\ FreshPage

CollOp(name, e, c) ==
    /\ Commit([World EXCEPT !.coll[e] = c])
    /\ Record(Op(name, e))
    /\ UNCHANGED Still

\* Alpine binds x-collapse on element e, whose inline height is set or not
CollapseBind(e, height, value) ==
    /\ ~coll[e].bound
    /\ CollOp("collapseBind", e, directive(height, value, coll[e]))

\* the expression of element e is evaluated again
CollapseEvaluate(e, value) ==
    /\ coll[e].bound
    /\ Len(coll[e].listeners) < MaxListeners
    /\ CollOp("collapseEvaluate", e, evaluated(value, coll[e]))

\* the height transition of element e ends
TransitionEnd(e) ==
    /\ coll[e].running
    /\ CollOp("transitionend", e, transitionend(coll[e]))

NextCollapse ==
    \/ \E e \in Elements, height \in {"", "px"}, value \in BOOLEAN :
          CollapseBind(e, height, value)
    \/ \E e \in Elements, value \in BOOLEAN : CollapseEvaluate(e, value)
    \/ \E e \in Elements : TransitionEnd(e)

SpecCollapse == InitCollapse /\ [][NextCollapse]_vars

----------------------------------------------------------------------------
(* alpine-init.js: Alpine.store('app') notifications *)

\* the notification texts used
Messages == {"saved", "failed"}

\* addNotification(message, type, timeout): the id is Date.now(); with a
\* timeout a timer is set that will call removeNotification(id)
addNotification(message, timeout, w) ==
    LET id == w.app.now
        w1 == [w EXCEPT !.app.notifications = Append(@, [id |-> id, message |-> message])]
    IN  IF timeout THEN [w1 EXCEPT !.app.timers = Append(@, id)] ELSE w1

\* removeNotification(id): notifications.filter(n => n.id !== id)
removeNotification(id, w) ==
    LET Other(n) == n.id # id
    IN  [w EXCEPT !.app.notifications = SelectSeq(@, Other)]

InitApp ==
    /\ storage = "ok"
    /\ stored = NULL
    /\ mediaAvail = TRUE
    /\ prefersDark = FALSE
    /\ premium = FALSE
    /\ authenticated = FALSE
    /\ rootAvail = TRUE
    /\ csrfToken = "token"
    /\ netMode = "elided"
    /\ throwing = {}
    /\ transitions = FALSE
    /\ FreshPage

\* a millisecond passes
Tick ==
    /\ app.now < MaxClock
    /\ Commit([World EXCEPT !.app.now = @ + 1])
    /\ Record(Op("tick", NULL))
    /\ UNCHANGED Still

AddNotification(message, timeout) ==
    /\ Len(app.notifications) < MaxNotifications
    /\ Len(app.timers) < MaxNotifications
    /\ Commit(addNotification(message, timeout, World))
    /\ Record(Op("addNotification", message))
    /\ UNCHANGED Still

\* the user dismisses the i-th notification
RemoveNotification(i) ==
    /\ i \in 1..Len(app.notifications)
    /\ Commit(removeNotification(app.notifications[i].id, World))
    /\ Record(Op("removeNotification", NULL))
    /\ UNCHANGED Still

\* the i-th pending timer fires (timeouts differ, so in any order)
TimerFires(i) ==
    /\ i \in 1..Len(app.timers)
    /\ Commit(removeNotification(app.timers[i],
                                 [World EXCEPT !.app.timers = RemoveAt(@, i)]))
    /\ Record(Op("timerFires", NULL))
    /\ UNCHANGED Still

NextApp ==
    \/ Tick
    \/ \E message \in Messages, timeout \in BOOLEAN : AddNotification(message, timeout)
    \/ \E i \in 1..MaxNotifications : RemoveNotification(i)
    \/ \E i \in 1..MaxNotifications : TimerFires(i)

SpecApp == InitApp /\ [][NextApp]_vars

----------------------------------------------------------------------------
(* Properties *)

\* C1: a premium theme (space, neon, contrast) is the active theme (in the
\* store, in the module variable, on the root element or on the body) only
\* if the entitlement flag, body data-premium = 'true', holds.  The flag is
\* server-rendered and constant during a page load, so its value now is its
\* value at the time of the request.
C1_PremiumOnlyIfEntitled ==
    \A t \in PREMIUM_THEMES :
        (current = t \/ currentTheme = t \/ bodyTheme = t \/ ThemeClass(t) \in rootClasses)
            => premium

\* C2: the store's set(themeId) with a premium themeId and a false
\* entitlement flag changes nothing: current, isDark, the root's classes,
\* the body's data-theme and the stored preference keep their values, no
\* theme-changed event is dispatched and no sync request is sent.  With the
\* flag true, set("neon") makes current = "neon" and isDark = TRUE.
C2_RejectedSetNoChange ==
    [][ /\ (lastOp'.op = "set" /\ lastOp'.arg \in PREMIUM_THEMES /\ ~hasPremium)
            => /\ current' = current
               /\ isDark' = isDark
               /\ menuOpen' = menuOpen
               /\ currentTheme' = currentTheme
               /\ rootClasses' = rootClasses
               /\ bodyTheme' = bodyTheme
               /\ stored' = stored
               /\ source' = source
               /\ emitted' = << >>
               /\ synced' = << >>
        /\ (lastOp'.op = "set" /\ lastOp'.arg = "neon" /\ hasPremium)
            => (current' = "neon" /\ isDark' = TRUE)
      ]_vars

C2_Witness ==
    /\ lastOp = Op("set", "neon")
    /\ ~premium
    /\ domReady
    /\ current = "light"
    /\ bodyTheme = "light"
    /\ stored = "light"

\* C3: once the store exists, its current theme is a registered theme id.
C3_CurrentInRegistry == storeReady => current \in REGISTRY

\* C4: startup resolution yields the stored value when it is a registered
\* theme id, and otherwise (absent, or unregistered such as "retro") the
\* system theme: "dark" when the system prefers dark, "light" when not.
C4_StartupResolution ==
    LET saved    == getSavedTheme(World)
        resolved == IF saved # NULL /\ saved \in REGISTRY THEN saved
                    ELSE IF prefersDark THEN "dark" ELSE "light"
        src      == IF saved # NULL /\ saved \in REGISTRY THEN "EXPLICIT_USER"
                    ELSE "SYSTEM_PREFERENCE"
    IN  /\ (lastOp.op = "load" /\ rootAvail) => (currentTheme = resolved /\ source = src)
        /\ (lastOp.op = "alpineInit") => current = resolved

\* C5: once the user has explicitly set a theme, a change of the OS colour
\* scheme changes neither the active theme nor the DOM.
C5_WatcherSuppressed ==
    [][ (source = "EXPLICIT_USER" /\ lastOp'.op = "osChange")
            => /\ current' = current
               /\ rootClasses' = rootClasses
               /\ bodyTheme' = bodyTheme
      ]_vars

\* C6: with no explicit user preference, a change of the OS colour scheme
\* re-applies the system theme (dark iff the OS now prefers dark) and creates
\* no stored preference, so the source stays SYSTEM_PREFERENCE.
C6_WatcherFollowsSystem ==
    [][ (lastOp'.op = "osChange" /\ domReady /\ source # "EXPLICIT_USER")
            => LET newTheme == IF prefersDark' THEN "dark" ELSE "light"
               IN  /\ rootClasses' = (IF prefersDark' THEN {"dark"} ELSE {})
                   /\ bodyTheme' = newTheme
                   /\ currentTheme' = newTheme
                   /\ getSavedTheme(World) = NULL
                   /\ stored' = stored
                   /\ source' = "SYSTEM_PREFERENCE"
      ]_vars

C6_Witness ==
    /\ lastOp = Op("osChange", "dark")
    /\ domReady
    /\ source = "SYSTEM_PREFERENCE"
    /\ stored = NULL
    /\ rootClasses = {"dark"}
    /\ bodyTheme = "dark"

\* C7: in every state a reader can observe, the store's isDark equals
\* isDarkTheme(current).
C7_IsDarkDerived == storeReady => (isDark <=> isDarkTheme(current))

C7_Witness ==
    /\ lastOp.op = "toggle"
    /\ current = "light"
    /\ ~isDark
    /\ ThemeClass("space") \notin rootClasses
    /\ stored = "light"

\* C8: each successful set or resolve operation (startup resolution, set,
\* apply, toggle, window.setTheme, a watcher-driven re-resolution)
\* broadcasts exactly one theme-changed event.
C8_ExactlyOneEvent ==
    LET successful ==
            \/ lastOp.op \in {"load", "apply", "toggle"}
            \/ lastOp.op = "set" /\ ~SetRejects(lastOp.arg)
            \/ lastOp.op = "setTheme" /\ lastOp.arg # NULL
            \/ lastOp.op = "osChange" /\ domReady /\ source = "SYSTEM_PREFERENCE"
    IN  successful => Len(emitted) = 1

\* C9: when local storage is unavailable or its write throws, a set on the
\* ready page still applies the theme in full: root classes, current,
\* isDark, body data-theme and one theme-changed event carry the theme.
C9_StorageFailureStillApplies ==
    (/\ storage # "ok"
     /\ domReady
     /\ \/ lastOp.op = "set" /\ storeReady /\ ~SetRejects(lastOp.arg)
        \/ lastOp.op = "setTheme" /\ lastOp.arg # NULL)
        => LET theme == lastOp.arg
               dark  == theme = "dark" \/ theme \in PREMIUM_THEMES
           IN  /\ rootClasses = (IF dark THEN {"dark"} ELSE {})
                                  \cup (IF theme \in PREMIUM_THEMES THEN {ThemeClass(theme)} ELSE {})
               /\ bodyTheme = theme
               /\ emitted = << Event(theme, dark) >>
               /\ (lastOp.op = "set" => (current = theme /\ isDark = dark))

\* C10: a store operation that runs while the document root is unavailable
\* leaves current and isDark as they were.
C10_DomUnavailableNoop ==
    [][ (lastOp'.op \in {"set", "apply", "toggle"} /\ ~rootAvail)
            => (current' = current /\ isDark' = isDark)
      ]_vars

\* the theme-<id> marker classes an applicator may put on the root
ThemeClasses == { ThemeClass(t) : t \in REGISTRY }

\* lastOp is an operation that applied theme t to an available root
Applied(t) ==
    /\ rootAvail
    /\ \/ lastOp = Op("apply", t)
       \/ lastOp = Op("setTheme", t) /\ t # NULL
       \/ lastOp = Op("set", t) /\ ~SetRejects(t)

\* C11: the root carries at most one premium theme class at any time, and
\* after an applicator (store.apply, an accepted store.set, window.setTheme)
\* has applied theme t the only theme class on the root is theme-t when t is
\* premium and none otherwise: the classes of the theme before are gone.
C11_OnePremiumClass ==
    /\ Cardinality(rootClasses \cap ThemeClasses) <= 1
    /\ \A t \in ThemeArgs :
         Applied(t) => rootClasses \cap ThemeClasses =
                          (IF isPremiumTheme(t) THEN {ThemeClass(t)} ELSE {})

\* the page started on the stored 'space' theme and set('light') has just run
C11_Witness ==
    /\ lastOp = Op("set", "light")
    /\ storage = "readonly"
    /\ stored = "space"
    /\ rootAvail
    /\ rootClasses = {}
    /\ current = "light"

\* C12: once the store and the body both exist, after every completed theme
\* operation (start-up, set, apply, toggle, window.setTheme, a system
\* preference change) the body's data-theme equals the store's current theme.
C12_BodyMatchesStore ==
    (storeReady /\ domReady /\
     lastOp.op \in {"alpineInit", "domReady", "set", "apply", "toggle",
                    "setTheme", "osChange"})
        => bodyTheme = current

\* C13: applying a theme is idempotent.  When store.apply, store.set or
\* window.setTheme runs with the theme its previous run had (nothing in
\* between), the second run changes neither the root classes, nor the body
\* data-theme, nor the module's currentTheme, nor the store's current and
\* isDark, nor the stored preference; this for every theme id.
C13_ApplyIdempotent ==
    [][ (repeated' /\ lastOp'.op \in {"apply", "set", "setTheme"})
            => /\ rootClasses' = rootClasses
               /\ bodyTheme' = bodyTheme
               /\ currentTheme' = currentTheme
               /\ current' = current
               /\ isDark' = isDark
               /\ menuOpen' = menuOpen
               /\ stored' = stored
      ]_vars

\* window.setTheme('space') has just run for the second time in a row
C13_Witness ==
    /\ repeated
    /\ lastOp = Op("setTheme", "space")
    /\ rootClasses = {"dark", ThemeClass("space")}
    /\ bodyTheme = "space"
    /\ stored = "space"

\* C14: round trip through local persistence.  When store.set accepted
\* theme t, the page is reloaded right after and localStorage works, the
\* start-up of the new page resolves to t (determineTheme, and the module's
\* currentTheme once applied to the root) with source EXPLICIT_USER.
C14_ReloadRoundTrip ==
    (lastOp.op = "load" /\ lastOp.arg # NULL /\ storage = "ok")
        => /\ determineTheme(World) = lastOp.arg
           /\ source = "EXPLICIT_USER"
           /\ rootAvail => currentTheme = lastOp.arg

\* set('dark'), reload, start-up on a system that prefers light
C14_Witness ==
    /\ lastOp = Op("load", "dark")
    /\ storage = "ok"
    /\ ~prefersDark
    /\ currentTheme = "dark"
    /\ rootClasses = {"dark"}
    /\ source = "EXPLICIT_USER"

\* C16: a sync request is sent for a theme change exactly when the session
\* is authenticated: no operation of an unauthenticated session sends one,
\* and every accepted store.set and every window.setTheme of an
\* authenticated session sends exactly one POST carrying the theme set.
C16_SyncIffAuthenticated ==
    /\ ~isAuthenticated => synced = << >>
    /\ \A t \in ThemeArgs :
         (lastOp = Op("set", t) /\ ~SetRejects(t)) \/ lastOp = Op("setTheme", t)
            => synced = (IF isAuthenticated THEN << Request(t) >> ELSE << >>)

\* C15: remote sync is fire-and-forget.  (a) The answer to a sync request,
\* whether success, rejection or network failure, changes nothing of the
\* local theme (root classes, body data-theme, module and store state,
\* stored preference), broadcasts nothing and sends no request (no retry).
\* (b) At the moment window.setTheme or an accepted store.set has sent its
\* request, and before any answer, the theme is already on the root, on the
\* body and in localStorage.  A request never answered stays pending and
\* changes nothing.
C15_SyncFireAndForget ==
    [][ /\ lastOp'.op = "syncAnswer"
            => /\ rootClasses' = rootClasses
               /\ bodyTheme' = bodyTheme
               /\ currentTheme' = currentTheme
               /\ current' = current
               /\ isDark' = isDark
               /\ stored' = stored
               /\ emitted' = << >>
               /\ synced' = << >>
               /\ Len(inflight') = Len(inflight) - 1
        /\ (lastOp'.op \in {"set", "setTheme"} /\ synced' # << >>)
            => /\ bodyTheme' = lastOp'.arg
               /\ stored' = lastOp'.arg
               /\ ("dark" \in rootClasses') <=> isDarkTheme(lastOp'.arg)
               /\ inflight'[Len(inflight')].req.theme = lastOp'.arg
      ]_vars

\* the request of set('dark') failed on the network: the page is still dark
\* and the server was never told
C15_Witness ==
    /\ lastOp = Op("syncAnswer", "failed")
    /\ current = "dark"
    /\ bodyTheme = "dark"
    /\ stored = "dark"
    /\ rootClasses = {"dark"}
    /\ serverTheme = NULL
    /\ inflight = << >>
    /\ logged = << "error: Failed to save theme preference" >>

\* the message updateServerThemePreference logs about the token (when
\* reading the meta tag throws); saveToServer has none
CsrfWarning == "warn: Error getting CSRF token"

\* C17: when the page has no anti-forgery token, a sync request that is
\* sent is accompanied by a warning about the missing token.
C17_MissingTokenWarned ==
    (synced # << >> /\ csrfToken = "")
        => \E i \in 1..Len(logged) : logged[i] = CsrfWarning

\* the subscribers invoked by the last operation, in the order they ran
Ran == [i \in 1..Len(ran) |-> ran[i].listener]

C19_ChartsNotified ==
    emitted # << >>
        => Cardinality({ i \in 1..Len(ran) : ran[i].listener = "chart" })
              = Len(emitted) * Len(DocumentListeners)

\* C20: no theme operation lets an exception out to its caller, whichever
\* of local storage, the document, media-query support or the network is
\* unavailable.
C20_NoExceptionEscapes == ~thrown

\* C21: after the theme controller has applied a registry theme t through
\* an accepted store.set or through window.setTheme, on a page whose
\* document and localStorage work, AstroBotUtils.theme.getCurrentTheme()
\* returns t.
C21_GetCurrentTheme ==
    \A t \in REGISTRY :
        (domReady /\ storage = "ok" /\ Applied(t) /\ lastOp.op \in {"set", "setTheme"})
            => getCurrentTheme(World) = t

\* C22: (a) when ThemeManager.resetToSystemTheme() has run to its end, the
\* stored preference is absent and the active theme (the component's theme
\* and the root's classes) is the system-preferred one; (b) from then on,
\* as long as no explicit choice was made, every OS colour-scheme change
\* is followed: the theme becomes the new system scheme.
C22_ResetFollowsSystem ==
    [][ /\ (lastOp'.op = "resetToSystemTheme" /\ ~thrown')
            => /\ stored' = NULL
               /\ tm'.theme = (IF prefersDark THEN "dark" ELSE "light")
               /\ rootClasses' = (IF prefersDark THEN {"dark", ThemeClass("dark")}
                                                 ELSE {ThemeClass("light")})
               /\ source' = "SYSTEM_PREFERENCE"
        /\ (lastOp'.op = "tmOsChange" /\ source = "SYSTEM_PREFERENCE" /\ tm.watching)
            => /\ tm'.theme = lastOp'.arg
               /\ ("dark" \in rootClasses') <=> prefersDark'
               /\ stored' = NULL
               /\ ~thrown'
      ]_vars

\* a stored 'space' preference was reset on a system that prefers dark
C22_Witness ==
    /\ lastOp = Op("resetToSystemTheme", NULL)
    /\ ~thrown
    /\ storage = "readonly"
    /\ stored = NULL
    /\ prefersDark
    /\ tm.theme = "dark"
    /\ tm.watching
    /\ rootClasses = {"dark", ThemeClass("dark")}

\* the listeners the socket holds for the event of the last emit
ListenersOfLastEmit ==
    LET For(l) == l.event = lastOp.arg
    IN  SelectSeq(sock.listeners, For)

\* C23: no exception of a handler registered through
\* setupSocketEventHandlers reaches the socket; whenever the socket emits
\* an event, before or after a handler has thrown, every listener of that
\* event is called once, in registration order, and each handler that threw
\* is logged; no entry whose handler is not a function is ever registered.
C23_SocketHandlersIsolated ==
    /\ ~thrown
    /\ \A i \in 1..Len(sock.listeners) : sock.listeners[i].kind # "string"
    /\ lastOp.op = "socketEmit"
          => /\ Ran = ListenersOfLastEmit
             /\ \A i \in 1..Len(ran) : ~ran[i].threw
             /\ Cardinality({ i \in 1..Len(logged) :
                                logged[i] = "error: Error in socket event handler" })
                  = Cardinality({ i \in 1..Len(ListenersOfLastEmit) :
                                    ListenersOfLastEmit[i].kind = "throws" })

\* 'status' has a throwing handler registered before a working one; the
\* event was emitted twice in a row and both were called, the throw logged
C23_Witness ==
    /\ lastOp = Op("socketEmit", "status")
    /\ repeated
    /\ Len(ran) = 2
    /\ ran[1].listener.kind = "throws"
    /\ ran[2].listener.kind = "fn"
    /\ logged = << "error: Error in socket event handler" >>

\* C24: between handlers the DOM agrees with the theme store: the root
\* carries 'dark' exactly when the store's isDark is true, and carries
\* theme-<id> exactly when the store's current is the premium theme <id>.
C24_DomAgreesWithStore ==
    (storeReady /\ rootAvail)
        => /\ ("dark" \in rootClasses) <=> isDark
           /\ \A p \in PREMIUM_THEMES : (ThemeClass(p) \in rootClasses) <=> (current = p)

\* C25: each call of the store's toggle() on an available root flips
\* whether the root carries 'dark', leaves current in {light, dark} and
\* leaves no premium class on the root.
C25_ToggleFlipsDark ==
    [][ (lastOp'.op = "toggle" /\ rootAvail)
            => /\ ("dark" \in rootClasses') # ("dark" \in rootClasses)
               /\ current' \in {"light", "dark"}
               /\ rootClasses' \cap { ThemeClass(p) : p \in PREMIUM_THEMES } = {}
      ]_vars

\* C26: there is never more than one stars-background element, and after a
\* theme-changed event handled by the effects listener the element is
\* present exactly when the event's theme is space.
C26_StarsLayer ==
    /\ stars <= 1
    /\ (Len(emitted) = 1 /\ transitions /\ domReady /\ "effects" \notin throwing)
          => (stars > 0 <=> emitted[1].theme = "space")

\* C27: for every element with the collapse directive, once no transition
\* is under way (every pending transitionend callback has run), the element
\* is expanded exactly when the last evaluated value is truthy.
C27_CollapseSettles ==
    \A e \in Elements :
        (coll[e].bound /\ ~coll[e].running)
            => (coll[e].height # "0px" <=> coll[e].value)

C29_NotificationIdsDistinct ==
    \A i, j \in 1..Len(app.notifications) :
        i # j => app.notifications[i].id # app.notifications[j].id

\* C30: after a ThemeManager operation that ran to its end, the dark flag
\* it reports, the darkMode field and the isDark of every theme-changed
\* event it dispatched, is true exactly when the root carries 'dark'.
C30_DarkFlagMatchesRoot ==
    (tm.theme # NULL /\ ~thrown /\
     lastOp.op \in {"tmInit", "toggleDarkMode", "setPremiumTheme",
                    "resetToSystemTheme", "tmOsChange"})
        => /\ tm.darkMode <=> ("dark" \in rootClasses)
           /\ \A i \in 1..Len(emitted) : emitted[i].isDark <=> ("dark" \in rootClasses)

============================================================================
